---- MODULE Spec2Model ----
(***************************************************************************)
(* State-machine model of src/app.py: the Streamlit dashboard that loads   *)
(* the CSV exports of four categories (trend, blog, shop, news), merges    *)
(* them per category, filters them by keyword and date range and renders   *)
(* four sections.                                                          *)
(*                                                                         *)
(* File names and keywords are sequences of one-character strings, so that *)
(* the substring tests, str.replace and str.rsplit of the loader are       *)
(* computed as Python computes them.  Dates are day numbers 1..MaxDate,    *)
(* NaT is 0.  A text document is a sequence of tokens: a positive integer  *)
(* t is the word t in lower case, -t the same word with upper-case         *)
(* letters, 0 a one-character word.                                        *)
(***************************************************************************)
EXTENDS Integers, Sequences, FiniteSets, TLC

VARIABLES
    files,              \* glob result: the CSV files of the data directory
    i,                  \* number of files the loader's loop has consumed
    blog_list, shop_list, trend_list, news_list,
    errors,             \* file names shown by st.error
    blog_df, shop_df, trend_df, news_df,
    all_keywords, selected_keywords, date_range,
    f_trend, f_blog, f_shop, f_news,
    ranking, ranking_n, \* the TF-IDF tables of tab2 and tab4
    out,                \* elements rendered by the current script run
    raised,             \* stage whose statement raised an uncaught exception
    pc

vars == << files, i, blog_list, shop_list, trend_list, news_list, errors,
           blog_df, shop_df, trend_df, news_df,
           all_keywords, selected_keywords, date_range,
           f_trend, f_blog, f_shop, f_news, ranking, ranking_n,
           out, raised, pc >>

----------------------------------------------------------------------------
(* Bounds of the model *)

MaxFiles == 4
MaxNamed == 2
MaxRows == 2
MaxDate == 3
MaxDocs == 2

(* Program constants *)

MaxFeaturesBlog == 30
MaxFeaturesNews == 25

NaT == 0

----------------------------------------------------------------------------
(* Python string operations on sequences of characters *)

StartsWith(s, sub) ==
    /\ Len(sub) <= Len(s)
    /\ SubSeq(s, 1, Len(sub)) = sub

\* sub in s
Contains(s, sub) ==
    \E k \in 1..(Len(s) - Len(sub) + 1) : SubSeq(s, k, k + Len(sub) - 1) = sub

\* s.replace(sub, ''): every non-overlapping occurrence, left to right
RECURSIVE Replace(_, _)
Replace(s, sub) ==
    IF Len(s) < Len(sub) THEN s
    ELSE IF SubSeq(s, 1, Len(sub)) = sub
         THEN Replace(SubSeq(s, Len(sub) + 1, Len(s)), sub)
         ELSE << s[1] >> \o Replace(Tail(s), sub)

\* s.rsplit('_', 1)[0]: the part before the last underscore, s if there is none
RSplit1(s) ==
    LET us == { k \in 1..Len(s) : s[k] = "_" }
    IN  IF us = {} THEN s
        ELSE SubSeq(s, 1, (CHOOSE k \in us : \A m \in us : m <= k) - 1)

----------------------------------------------------------------------------
(* File names *)

P_blog  == << "b", "l", "o", "g", "_" >>
P_trend == << "s", "h", "o", "p", "p", "i", "n", "g", "_", "t", "r", "e", "n", "d", "_" >>
P_trend_bare == << "s", "h", "o", "p", "p", "i", "n", "g", "_", "t", "r", "e", "n", "d" >>
P_shop  == << "s", "h", "o", "p", "_" >>
P_news  == << "n", "e", "w", "s", "_" >>

K_foo      == << "f", "o", "o" >>
K_bar      == << "b", "a", "r" >>
K_baz      == << "b", "a", "z" >>
K_blog     == << "b", "l", "o", "g" >>
K_shop     == << "s", "h", "o", "p" >>
K_goodnews == << "g", "o", "o", "d", "n", "e", "w", "s" >>
K_cat_eye  == << "c", "a", "t", "_", "e", "y", "e" >>

Stamp1 == << "_", "1", ".", "c", "s", "v" >>
Stamp2 == << "_", "2", ".", "c", "s", "v" >>
Readme == << "r", "e", "a", "d", "m", "e", ".", "c", "s", "v" >>

----------------------------------------------------------------------------
(* Classification of a file name, src/app.py:24-35 and 41-51 *)

NoKeyword == << "-" >>

\* the first if/elif chain: the keyword, or NoKeyword when the loop continues
KeywordOf(filename) ==
    IF Contains(filename, P_blog) THEN RSplit1(Replace(filename, P_blog))
    ELSE IF Contains(filename, P_trend) THEN RSplit1(Replace(filename, P_trend))
    ELSE IF Contains(filename, P_shop) THEN RSplit1(Replace(filename, P_shop))
    ELSE IF Contains(filename, P_news) THEN RSplit1(Replace(filename, P_news))
    ELSE NoKeyword

Recognised(filename) ==
    \/ Contains(filename, P_blog)
    \/ Contains(filename, P_trend)
    \/ Contains(filename, P_shop)
    \/ Contains(filename, P_news)

\* the second if/elif chain: the list the data frame is appended to
TableOf(filename) ==
    IF Contains(filename, P_blog) THEN "blog"
    ELSE IF Contains(filename, P_trend_bare) THEN "trend"
    ELSE IF Contains(filename, P_shop) THEN "shop"
    ELSE IF Contains(filename, P_news) THEN "news"
    ELSE "none"

----------------------------------------------------------------------------
(* Tables.  A data frame is its set of columns and its rows; a row keeps    *)
(* the file and line it was read from (rid), its target_keyword, the date   *)
(* of its date column and the document of its text column.                  *)

TrendCols == { "period", "ratio" }
BlogCols  == { "postdate", "bloggername", "title", "description" }
ShopCols  == { "lprice", "brand" }
NewsCols  == { "pubDate", "title" }

\* pd.DataFrame()
EmptyDF == [ cols |-> {}, rows |-> << >> ]

\* DataFrame.empty: an axis of length 0
IsEmpty(df) == df.cols = {} \/ Len(df.rows) = 0

DateCol(table) ==
    IF table = "blog" THEN "postdate"
    ELSE IF table = "trend" THEN "period"
    ELSE IF table = "news" THEN "pubDate"
    ELSE "-"

TextCol(table) ==
    IF table = "blog" THEN "description"
    ELSE IF table = "news" THEN "title"
    ELSE "-"

\* pd.to_datetime(..., errors='coerce'): a day number, NaT for anything else
ToDatetime(raw) == IF raw >= 1 THEN raw ELSE NaT

\* the documents: 0 is a missing value (NaN); Docs[1] is the empty string,
\* Docs[2] holds one-character words only, Docs[3] and Docs[4] share the
\* words 14..17 and hold 34 words between them, Docs[5] repeats a word in
\* two spellings
NaNDoc == 0

Docs ==
    << << >>,
       << 0, 0 >>,
       [ k \in 1..17 |-> k ],
       [ k \in 1..21 |-> IF k % 5 = 0 THEN -(13 + k) ELSE 13 + k ],
       << 1, -1, 1, 2, 0 >> >>

WordsDocId == Len(Docs)

----------------------------------------------------------------------------
(* The data directory: which files it holds and what each contains *)

Row(d, x) == [ date |-> d, doc |-> x ]

File(name, ok, cols, rows) == [ name |-> name, ok |-> ok, cols |-> cols, rows |-> rows ]

\* one row a day from lo to hi (lo = 0: the first value does not parse)
Series(lo, hi, x) == [ k \in 1..(hi - lo + 1) |-> Row(lo + k - 1, x) ]

\* n rows, all of day 1
Rows(n, x) == [ k \in 1..n |-> Row(1, x) ]

\* rows whose documents are all blank: NaN, '', one-character words
BlankRows(lo, hi) == [ k \in 1..(hi - lo + 1) |-> Row(lo + k - 1, k % 3) ]

\* the category whose export the file is, by the prefix of its name
Intended(name) ==
    IF StartsWith(name, P_trend) THEN "trend"
    ELSE IF StartsWith(name, P_blog) THEN "blog"
    ELSE IF StartsWith(name, P_shop) THEN "shop"
    ELSE IF StartsWith(name, P_news) THEN "news"
    ELSE "none"

ColsOf(table) ==
    IF table = "trend" THEN TrendCols
    ELSE IF table = "blog" THEN BlogCols
    ELSE IF table = "shop" THEN ShopCols
    ELSE IF table = "news" THEN NewsCols
    ELSE {}

Unreadable(name) == File(name, FALSE, {}, << >>)

\* contents of a file of the filter-and-render family
Contents(name) ==
    LET c == Intended(name) IN
    IF c = "trend" THEN
        { Unreadable(name),
          File(name, TRUE, TrendCols \ { "ratio" }, Series(1, MaxDate, NaNDoc)),
          File(name, TRUE, TrendCols, Series(0, 0, NaNDoc)),
          File(name, TRUE, TrendCols, Series(0, MaxDate, NaNDoc)) }
    ELSE IF c = "blog" THEN
        { Unreadable(name),
          File(name, TRUE, BlogCols \ { "bloggername" }, Series(0, MaxDate, WordsDocId)),
          File(name, TRUE, BlogCols, Series(0, MaxDate, WordsDocId)),
          File(name, TRUE, BlogCols, BlankRows(0, MaxDate)) }
    ELSE IF c = "shop" THEN
        { Unreadable(name),
          File(name, TRUE, ShopCols \ { "lprice" }, Rows(1, NaNDoc)) }
        \cup { File(name, TRUE, ShopCols, Rows(n, NaNDoc)) : n \in 1..MaxRows }
    ELSE IF c = "news" THEN
        { Unreadable(name),
          File(name, TRUE, NewsCols \ { "title" }, Rows(1, NaNDoc)),
          File(name, TRUE, NewsCols, Rows(MaxRows, WordsDocId)),
          File(name, TRUE, NewsCols, BlankRows(1, MaxRows)) }
    ELSE { File(name, TRUE, {}, << >>) }

\* contents of a file of the classification family
SimpleContents(name) ==
    LET c == Intended(name) IN
    IF c = "none" THEN { File(name, TRUE, {}, << >>) }
    ELSE { Unreadable(name),
           File(name, TRUE, ColsOf(c) \ { DateCol(c) }, Rows(1, WordsDocId)) }
         \cup { File(name, TRUE, ColsOf(c), Rows(n, WordsDocId)) : n \in 1..MaxRows }

\* contents of a file of the ranking family
DocRows(c) == [ k \in 1..Len(c) |-> Row(1, c[k]) ]

RECURSIVE Collections(_)
Collections(n) ==
    IF n = 0 THEN { << >> }
    ELSE LET shorter == Collections(n - 1) IN
         shorter \cup { Append(c, x) : c \in { s \in shorter : Len(s) = n - 1 },
                                       x \in 0..Len(Docs) }

MainNames ==
    << P_trend \o K_foo \o Stamp1, P_trend \o K_bar \o Stamp1,
       P_blog \o K_foo \o Stamp1, P_blog \o K_baz \o Stamp1,
       P_shop \o K_foo \o Stamp1, P_news \o K_foo \o Stamp1 >>

AllNames ==
    << P_trend \o K_foo \o Stamp1, P_trend \o K_blog \o Stamp1,
       P_trend \o K_shop \o Stamp1,
       P_blog \o K_foo \o Stamp1, P_blog \o K_foo \o Stamp2,
       P_blog \o K_cat_eye \o Stamp1,
       P_shop \o K_foo \o Stamp1, P_shop \o K_goodnews \o Stamp1,
       P_news \o K_foo \o Stamp1, P_news \o K_goodnews \o Stamp1,
       P_news \o K_shop \o Stamp1, Readme >>

\* the listings of at most k files among names[from..]; glob returns them
\* in the order of the directory, here the order of names
RECURSIVE Listings(_, _, _, _)
Listings(names, simple, from, k) ==
    IF k = 0 THEN { << >> }
    ELSE { << >> } \cup UNION {
             { << f >> \o rest :
                 f \in (IF simple THEN SimpleContents(names[j]) ELSE Contents(names[j])),
                 rest \in Listings(names, simple, j + 1, k - 1) } :
             j \in from..Len(names) }

RankListings ==
    { << File(P_blog \o K_foo \o Stamp1, TRUE, cols, DocRows(c)),
         File(P_news \o K_foo \o Stamp1, TRUE, NewsCols, DocRows(c)) >> :
        cols \in { BlogCols, BlogCols \ { "description" }, BlogCols \ { "title" } },
        c \in Collections(MaxDocs) }

----------------------------------------------------------------------------
(* load_and_preprocess_data, src/app.py:15-58 *)

\* pd.read_csv(f) with the target_keyword column and the parsed date column
ReadCsv(f, idx, keyword, table) ==
    [ src |-> idx,
      cols |-> f.cols \cup { "target_keyword" },
      rows |-> [ k \in 1..Len(f.rows) |->
                   [ rid |-> << idx, k >>,
                     target_keyword |-> keyword,
                     date |-> IF DateCol(table) = "-" THEN NaT
                              ELSE ToDatetime(f.rows[k].date),
                     doc |-> IF TextCol(table) \in f.cols THEN f.rows[k].doc
                             ELSE NaNDoc ] ] ]

\* the try block raises: read_csv fails, or the date column is missing
LoadRaises(f, table) ==
    \/ ~f.ok
    \/ DateCol(table) # "-" /\ DateCol(table) \notin f.cols

\* LoadFile with the try block around the whole loop: the first file that
\* raises ends the loading
LoadFileAbort ==
    /\ pc = "load"
    /\ i < Len(files)
    /\ LET f == files[i + 1]
           filename == f.name
           keyword == KeywordOf(filename)
           table == TableOf(filename)
           df == ReadCsv(f, i + 1, keyword, table)
       IN  IF ~Recognised(filename)
           THEN /\ i' = i + 1
                /\ UNCHANGED << blog_list, shop_list, trend_list, news_list, errors >>
           ELSE IF LoadRaises(f, table)
           THEN /\ i' = Len(files)
                /\ errors' = errors \cup { filename }
                /\ UNCHANGED << blog_list, shop_list, trend_list, news_list >>
           ELSE /\ i' = i + 1
                /\ blog_list' = IF table = "blog" THEN Append(blog_list, df) ELSE blog_list
                /\ trend_list' = IF table = "trend" THEN Append(trend_list, df) ELSE trend_list
                /\ shop_list' = IF table = "shop" THEN Append(shop_list, df) ELSE shop_list
                /\ news_list' = IF table = "news" THEN Append(news_list, df) ELSE news_list
                /\ UNCHANGED errors
    /\ UNCHANGED << files, blog_df, shop_df, trend_df, news_df, all_keywords,
                    selected_keywords, date_range, f_trend, f_blog, f_shop, f_news,
                    ranking, ranking_n, out, raised, pc >>

\* one iteration of the loop over files
LoadFile ==
    /\ pc = "load"
    /\ i < Len(files)
    /\ LET f == files[i + 1]
           filename == f.name
           keyword == KeywordOf(filename)
           table == TableOf(filename)
           df == ReadCsv(f, i + 1, keyword, table)
       IN  /\ i' = i + 1
           /\ IF ~Recognised(filename)
              THEN UNCHANGED << blog_list, shop_list, trend_list, news_list, errors >>
              ELSE IF LoadRaises(f, table)
              THEN /\ errors' = errors \cup { filename }
                   /\ UNCHANGED << blog_list, shop_list, trend_list, news_list >>
              ELSE /\ blog_list' = IF table = "blog" THEN Append(blog_list, df) ELSE blog_list
                   /\ trend_list' = IF table = "trend" THEN Append(trend_list, df) ELSE trend_list
                   /\ shop_list' = IF table = "shop" THEN Append(shop_list, df) ELSE shop_list
                   /\ news_list' = IF table = "news" THEN Append(news_list, df) ELSE news_list
                   /\ UNCHANGED errors
    /\ UNCHANGED << files, blog_df, shop_df, trend_df, news_df, all_keywords,
                    selected_keywords, date_range, f_trend, f_blog, f_shop, f_news,
                    ranking, ranking_n, out, raised, pc >>

RECURSIVE ConcatRows(_)
ConcatRows(list) ==
    IF list = << >> THEN << >> ELSE Head(list).rows \o ConcatRows(Tail(list))

\* pd.concat(list, ignore_index=True) if list else pd.DataFrame()
Concat(list) ==
    IF list = << >> THEN EmptyDF
    ELSE [ cols |-> UNION { list[k].cols : k \in DOMAIN list },
           rows |-> ConcatRows(list) ]

\* the return statement and the assignment of line 61
ReturnTables ==
    /\ pc = "load"
    /\ i = Len(files)
    /\ blog_df' = Concat(blog_list)
    /\ shop_df' = Concat(shop_list)
    /\ trend_df' = Concat(trend_list)
    /\ news_df' = Concat(news_list)
    /\ pc' = "sidebar"
    /\ UNCHANGED << files, i, blog_list, shop_list, trend_list, news_list, errors,
                    all_keywords, selected_keywords, date_range,
                    f_trend, f_blog, f_shop, f_news, ranking, ranking_n, out, raised >>

----------------------------------------------------------------------------
(* Sidebar, src/app.py:64-74 *)

Keywords(df) == { df.rows[k].target_keyword : k \in DOMAIN df.rows }

\* Series.min() and Series.max() skip NaT; NaT when every value is NaT
Dates(df) == { df.rows[k].date : k \in DOMAIN df.rows } \ { NaT }
MinDate(df) == IF Dates(df) = {} THEN NaT
               ELSE CHOOSE d \in Dates(df) : \A e \in Dates(df) : d <= e
MaxDateOf(df) == IF Dates(df) = {} THEN NaT
                 ELSE CHOOSE d \in Dates(df) : \A e \in Dates(df) : e <= d

\* st.date_input returns both ends of the range, start <= end within
\* [min_date, max_date], or the start alone while the end is being picked
\* (the keyword filter and the date filter are then both skipped).  When
\* every period is NaT, min_date is NaT and st.date_input raises on it.
\* Sidebar offering the keywords of every table, not of the trend table alone
SidebarAnyKeyword ==
    /\ pc = "sidebar"
    /\ IF IsEmpty(trend_df)
       THEN /\ all_keywords' = {}
            /\ selected_keywords' = {}
            /\ date_range' = << >>
            /\ pc' = "filter"
            /\ UNCHANGED raised
       ELSE /\ all_keywords' = Keywords(trend_df) \cup Keywords(blog_df)
                                 \cup Keywords(shop_df) \cup Keywords(news_df)
            /\ \E sel \in SUBSET (Keywords(trend_df) \cup Keywords(blog_df)
                                    \cup Keywords(shop_df) \cup Keywords(news_df)) :
                  selected_keywords' = sel
            /\ IF MinDate(trend_df) = NaT
               THEN /\ date_range' = << >>
                    /\ raised' = "sidebar"
                    /\ pc' = "crashed"
               ELSE /\ \E s \in MinDate(trend_df)..MaxDateOf(trend_df) :
                       \E e \in s..MaxDateOf(trend_df) :
                          \E both \in BOOLEAN :
                             date_range' = IF both THEN << s, e >> ELSE << s >>
                    /\ pc' = "filter"
                    /\ UNCHANGED raised
    /\ UNCHANGED << files, i, blog_list, shop_list, trend_list, news_list, errors,
                    blog_df, shop_df, trend_df, news_df,
                    f_trend, f_blog, f_shop, f_news, ranking, ranking_n, out >>

Sidebar ==
    /\ pc = "sidebar"
    /\ IF IsEmpty(trend_df)
       THEN /\ all_keywords' = {}
            /\ selected_keywords' = {}
            /\ date_range' = << >>
            /\ pc' = "filter"
            /\ UNCHANGED raised
       ELSE /\ all_keywords' = Keywords(trend_df)
            /\ \E sel \in SUBSET Keywords(trend_df) : selected_keywords' = sel
            /\ IF MinDate(trend_df) = NaT
               THEN /\ date_range' = << >>
                    /\ raised' = "sidebar"
                    /\ pc' = "crashed"
               ELSE /\ \E s \in MinDate(trend_df)..MaxDateOf(trend_df) :
                       \E e \in s..MaxDateOf(trend_df) :
                          \E both \in BOOLEAN :
                             date_range' = IF both THEN << s, e >> ELSE << s >>
                    /\ pc' = "filter"
                    /\ UNCHANGED raised
    /\ UNCHANGED << files, i, blog_list, shop_list, trend_list, news_list, errors,
                    blog_df, shop_df, trend_df, news_df,
                    f_trend, f_blog, f_shop, f_news, ranking, ranking_n, out >>

----------------------------------------------------------------------------
(* Filter stage, src/app.py:77-88 *)

RECURSIVE SelectRows(_, _, _, _, _)
SelectRows(rows, kws, dated, s, e) ==
    IF rows = << >> THEN << >>
    ELSE LET r == Head(rows)
             keep == /\ r.target_keyword \in kws
                     /\ dated => (r.date # NaT /\ r.date >= s /\ r.date <= e)
         IN  (IF keep THEN << r >> ELSE << >>) \o SelectRows(Tail(rows), kws, dated, s, e)

\* df[isin(selected_keywords)]
ByKeyword(df, kws) ==
    [ cols |-> df.cols, rows |-> SelectRows(df.rows, kws, FALSE, 0, 0) ]

\* the date filter with strict comparisons
RECURSIVE SelectRowsStrict(_, _, _, _)
SelectRowsStrict(rows, kws, s, e) ==
    IF rows = << >> THEN << >>
    ELSE LET r == Head(rows)
             keep == r.target_keyword \in kws /\ r.date # NaT /\ r.date > s /\ r.date < e
         IN  (IF keep THEN << r >> ELSE << >>) \o SelectRowsStrict(Tail(rows), kws, s, e)

ByKeywordAndDateStrict(df, kws, s, e) ==
    [ cols |-> df.cols, rows |-> SelectRowsStrict(df.rows, kws, s, e) ]

\* df[isin(selected_keywords) & (date >= start_date) & (date <= end_date)]
ByKeywordAndDate(df, kws, s, e) ==
    [ cols |-> df.cols, rows |-> SelectRows(df.rows, kws, TRUE, s, e) ]

\* df['target_keyword'] raises KeyError on a table without that column
HasKeywordCol(df) == "target_keyword" \in df.cols

Filter ==
    /\ pc = "filter"
    /\ IF Len(date_range) = 2
       THEN LET start_date == date_range[1]
                end_date == date_range[2]
                okBlog == HasKeywordCol(blog_df)
                okNews == okBlog /\ HasKeywordCol(news_df)
                okShop == okNews /\ HasKeywordCol(shop_df)
            IN  /\ f_trend' = ByKeywordAndDate(trend_df, selected_keywords, start_date, end_date)
                /\ f_blog' = IF okBlog
                             THEN ByKeywordAndDate(blog_df, selected_keywords, start_date, end_date)
                             ELSE f_blog
                /\ f_news' = IF okNews THEN ByKeyword(news_df, selected_keywords) ELSE f_news
                /\ f_shop' = IF okShop THEN ByKeyword(shop_df, selected_keywords) ELSE f_shop
                /\ raised' = IF okShop THEN raised ELSE "filter"
                /\ pc' = IF okShop THEN "tab1" ELSE "crashed"
       ELSE /\ f_trend' = trend_df
            /\ f_blog' = blog_df
            /\ f_shop' = shop_df
            /\ f_news' = news_df
            /\ pc' = "tab1"
            /\ UNCHANGED raised
    /\ UNCHANGED << files, i, blog_list, shop_list, trend_list, news_list, errors,
                    blog_df, shop_df, trend_df, news_df,
                    all_keywords, selected_keywords, date_range,
                    ranking, ranking_n, out >>

----------------------------------------------------------------------------
(* TfidfVectorizer(max_features=m).fit_transform and the column sums,      *)
(* src/app.py:127-129 and 175-177.  Scores are fixed-point thousandths,    *)
(* idf values hundredths.                                                  *)

\* round(100 * ln k) for k = 1..64
LnCenti ==
    <<
       0, 69, 110, 139, 161, 179, 195, 208, 220, 230, 240, 248, 256, 264, 271, 277,
       283, 289, 294, 300, 304, 309, 314, 318, 322, 326, 330, 333, 337, 340, 343, 347,
       350, 353, 356, 358, 361, 364, 366, 369, 371, 374, 376, 378, 381, 383, 385, 387,
       389, 391, 393, 395, 397, 399, 401, 403, 404, 406, 408, 409, 411, 413, 414, 416 >>

\* fillna(''), lower-casing and the token pattern of words of two or more
\* characters
Tokenize(x) ==
    LET text == IF x = NaNDoc THEN << >> ELSE Docs[x]
        words == SelectSeq(text, LAMBDA t : t # 0)
    IN  [ k \in 1..Len(words) |-> IF words[k] < 0 THEN -words[k] ELSE words[k] ]

Count(seq, t) == Cardinality({ k \in DOMAIN seq : seq[k] = t })

RECURSIVE SumSeq(_)
SumSeq(seq) == IF seq = << >> THEN 0 ELSE Head(seq) + SumSeq(Tail(seq))

RECURSIVE Sorted(_)
Sorted(S) ==
    IF S = {} THEN << >>
    ELSE LET m == CHOOSE x \in S : \A y \in S : x <= y
         IN  << m >> \o Sorted(S \ { m })

RECURSIVE ISqrtIn(_, _, _)
ISqrtIn(x, lo, hi) ==
    IF lo >= hi THEN lo
    ELSE LET mid == (lo + hi + 1) \div 2
         IN  IF mid * mid <= x THEN ISqrtIn(x, mid, hi) ELSE ISqrtIn(x, lo, mid - 1)

ISqrt(x) == ISqrtIn(x, 0, 40000)

\* the vocabulary of the collection
Vocabulary(toks) == UNION { { toks[d][k] : k \in DOMAIN toks[d] } : d \in DOMAIN toks }

\* the text column of a table, and its tokens
DocsOf(df) == [ k \in DOMAIN df.rows |-> df.rows[k].doc ]

TokensOf(df) == [ k \in DOMAIN df.rows |-> Tokenize(df.rows[k].doc) ]

\* fit_transform raises ValueError on an empty vocabulary
EmptyVocabulary(docs) ==
    Vocabulary([ d \in DOMAIN docs |-> Tokenize(docs[d]) ]) = {}

\* total count of every word of the vocabulary over the collection
Totals(toks, vocab) ==
    [ t \in vocab |-> SumSeq([ d \in DOMAIN toks |-> Count(toks[d], t) ]) ]

\* the total count at which the cut at max_features falls
CutAt(vocab, total, max_features) ==
    CHOOSE v \in { total[t] : t \in vocab } :
        /\ Cardinality({ t \in vocab : total[t] > v }) < max_features
        /\ Cardinality({ t \in vocab : total[t] >= v }) >= max_features

TiesFrom(vocab, total, v, max_features) ==
    Cardinality({ t \in vocab : total[t] = v })
        - (max_features - Cardinality({ t \in vocab : total[t] > v })) + 1

TieChoicesFrom(vocab, total, max_features) ==
    IF Cardinality(vocab) <= max_features THEN 1
    ELSE TiesFrom(vocab, total, CutAt(vocab, total, max_features), max_features)

\* the number of ways the cut at max_features can fall among tied words
TieChoices(toks, max_features) ==
    TieChoicesFrom(Vocabulary(toks), Totals(toks, Vocabulary(toks)), max_features)

KeepFrom(above, ties, need, skip) ==
    above \cup { ties[k] : k \in (skip + 1)..(skip + need) }

LimitAt(vocab, total, v, max_features, skip) ==
    KeepFrom({ t \in vocab : total[t] > v },
             Sorted({ t \in vocab : total[t] = v }),
             max_features - Cardinality({ t \in vocab : total[t] > v }),
             skip)

LimitFrom(vocab, total, max_features, skip) ==
    IF Cardinality(vocab) <= max_features THEN vocab
    ELSE LimitAt(vocab, total, CutAt(vocab, total, max_features), max_features, skip)

\* LimitFeatures without the cut
LimitFeaturesAll(toks, max_features, skip) == Vocabulary(toks)

\* the max_features words of highest total count; of the words tied at the
\* cut, which are kept is the sort's business: the run of consecutive ones
\* starting after the first `skip`
LimitFeatures(toks, max_features, skip) ==
    LimitFrom(Vocabulary(toks), Totals(toks, Vocabulary(toks)), max_features, skip)

\* smooth idf: ln((1 + n) / (1 + df)) + 1
Idf(n, df) == 100 + LnCenti[1 + n] - LnCenti[1 + df]

\* tf * idf of every feature in every document
Weights(tf, idf) ==
    [ d \in DOMAIN tf |-> [ k \in DOMAIN idf |-> tf[d][k] * idf[k] ] ]

\* the l2 norm of every document's row
Norms(w) ==
    [ d \in DOMAIN w |-> ISqrt(SumSeq([ k \in DOMAIN w[d] |-> w[d][k] * w[d][k] ])) ]

\* the column sums of the normalised matrix
Scores(feat, w, norm) ==
    [ k \in DOMAIN feat |->
        [ keyword |-> feat[k],
          score |-> SumSeq([ d \in DOMAIN w |->
                       IF norm[d] = 0 THEN 0 ELSE (1000 * w[d][k]) \div norm[d] ]) ] ]

ScoresFrom(feat, w) == Scores(feat, w, Norms(w))

RankCounts(feat, tf) ==
    ScoresFrom(feat, Weights(tf,
        [ k \in DOMAIN feat |->
            Idf(Len(tf), Cardinality({ d \in DOMAIN tf : tf[d][k] > 0 })) ]))

RankFeatures(toks, feat) ==
    RankCounts(feat, [ d \in DOMAIN toks |-> [ k \in DOMAIN feat |-> Count(toks[d], feat[k]) ] ])

RankTokens(toks, max_features, skip) ==
    RankFeatures(toks, Sorted(LimitFeatures(toks, max_features, skip)))

\* the ranking table: one row for every feature, in the order of
\* get_feature_names_out, with the column sum of the tf-idf matrix
Rank(docs, max_features, skip) ==
    RankTokens([ d \in DOMAIN docs |-> Tokenize(docs[d]) ], max_features, skip)


----------------------------------------------------------------------------
(* The four sections, src/app.py:96-190.  An uncaught exception ends the   *)
(* script run: what was rendered stays, nothing more is rendered.          *)

ScriptVars == << all_keywords, selected_keywords, date_range >>
LoaderVars == << files, i, blog_list, shop_list, trend_list, news_list, errors,
                 blog_df, shop_df, trend_df, news_df >>
FilteredVars == << f_trend, f_blog, f_shop, f_news >>

Tab1 ==
    /\ pc = "tab1"
    /\ IF IsEmpty(f_trend)
       THEN /\ out' = out \cup { "header1", "info_trend" }
            /\ pc' = "tab2"
            /\ UNCHANGED raised
       ELSE IF "ratio" \notin f_trend.cols
       THEN /\ out' = out \cup { "header1" }
            /\ raised' = "tab1"
            /\ pc' = "crashed"
       ELSE /\ out' = out \cup { "header1", "fig1", "trend_desc" }
            /\ pc' = "tab2"
            /\ UNCHANGED raised
    /\ UNCHANGED << LoaderVars, ScriptVars, FilteredVars, ranking, ranking_n >>

\* RankRaises without the ValueError of the empty vocabulary
RankRaisesColumnOnly(df, col) == col \notin df.cols

\* the try block of the TF-IDF step raises: the text column is missing, or
\* the vocabulary is empty
RankRaises(df, col) == col \notin df.cols \/ EmptyVocabulary(DocsOf(df))

Tab2 ==
    /\ pc = "tab2"
    /\ IF IsEmpty(f_blog)
       THEN /\ out' = out \cup { "header2", "info_blog" }
            /\ pc' = "tab3"
            /\ UNCHANGED << raised, ranking >>
       ELSE IF "bloggername" \notin f_blog.cols
       THEN /\ out' = out \cup { "header2" }
            /\ raised' = "tab2"
            /\ pc' = "crashed"
            /\ UNCHANGED ranking
       ELSE LET tableOk == { "postdate", "bloggername", "title", "target_keyword" }
                               \subseteq f_blog.cols
                rest == IF tableOk THEN { "table2" } ELSE {}
            IN  /\ IF RankRaises(f_blog, "description")
                   THEN /\ ranking' = << >>
                        /\ out' = out \cup { "header2", "fig2", "tfidf_notice" } \cup rest
                   ELSE \E skip \in 0..(TieChoices(TokensOf(f_blog), MaxFeaturesBlog) - 1) :
                          /\ ranking' = Rank(DocsOf(f_blog), MaxFeaturesBlog, skip)
                          /\ out' = out \cup { "header2", "fig2", "fig3" } \cup rest
                /\ raised' = IF tableOk THEN raised ELSE "tab2"
                /\ pc' = IF tableOk THEN "tab3" ELSE "crashed"
    /\ UNCHANGED << LoaderVars, ScriptVars, FilteredVars, ranking_n >>

Tab3 ==
    /\ pc = "tab3"
    /\ IF IsEmpty(f_shop)
       THEN /\ out' = out \cup { "header3", "info_shop" }
            /\ pc' = "tab4"
            /\ UNCHANGED raised
       ELSE IF "lprice" \notin f_shop.cols
       THEN /\ out' = out \cup { "header3" }
            /\ raised' = "tab3"
            /\ pc' = "crashed"
       ELSE IF "brand" \notin f_shop.cols
       THEN /\ out' = out \cup { "header3", "fig4" }
            /\ raised' = "tab3"
            /\ pc' = "crashed"
       ELSE /\ out' = out \cup { "header3", "fig4", "fig5", "brand_summary" }
            /\ pc' = "tab4"
            /\ UNCHANGED raised
    /\ UNCHANGED << LoaderVars, ScriptVars, FilteredVars, ranking, ranking_n >>

\* tab4 and the footer of lines 189-190
Tab4 ==
    /\ pc = "tab4"
    /\ IF IsEmpty(f_news)
       THEN /\ out' = out \cup { "header4", "info_news", "caption" }
            /\ pc' = "done"
            /\ UNCHANGED << raised, ranking_n >>
       ELSE LET tableOk == { "target_keyword", "title", "pubDate" } \subseteq f_news.cols
                rest == IF tableOk THEN { "table4", "caption" } ELSE {}
            IN  /\ IF RankRaises(f_news, "title")
                   THEN /\ ranking_n' = << >>
                        /\ out' = out \cup { "header4", "tfidf_notice_n" } \cup rest
                   ELSE \E skip \in 0..(TieChoices(TokensOf(f_news), MaxFeaturesNews) - 1) :
                          /\ ranking_n' = Rank(DocsOf(f_news), MaxFeaturesNews, skip)
                          /\ out' = out \cup { "header4", "fig6" } \cup rest
                /\ raised' = IF tableOk THEN raised ELSE "tab4"
                /\ pc' = IF tableOk THEN "done" ELSE "crashed"
    /\ UNCHANGED << LoaderVars, ScriptVars, FilteredVars, ranking >>

\* a user interaction reruns the script from the top; the loader's result is
\* cached (st.cache_data)
Rerun ==
    /\ pc \in { "done", "crashed" }
    /\ all_keywords' = {}
    /\ selected_keywords' = {}
    /\ date_range' = << >>
    /\ f_trend' = EmptyDF
    /\ f_blog' = EmptyDF
    /\ f_shop' = EmptyDF
    /\ f_news' = EmptyDF
    /\ ranking' = << >>
    /\ ranking_n' = << >>
    /\ out' = {}
    /\ raised' = "none"
    /\ pc' = "sidebar"
    /\ UNCHANGED LoaderVars

----------------------------------------------------------------------------
(* Specifications: the same program on three families of data directories *)

InitWith(listings) ==
    /\ files \in listings
    /\ i = 0
    /\ blog_list = << >>
    /\ shop_list = << >>
    /\ trend_list = << >>
    /\ news_list = << >>
    /\ errors = {}
    /\ blog_df = EmptyDF
    /\ shop_df = EmptyDF
    /\ trend_df = EmptyDF
    /\ news_df = EmptyDF
    /\ all_keywords = {}
    /\ selected_keywords = {}
    /\ date_range = << >>
    /\ f_trend = EmptyDF
    /\ f_blog = EmptyDF
    /\ f_shop = EmptyDF
    /\ f_news = EmptyDF
    /\ ranking = << >>
    /\ ranking_n = << >>
    /\ out = {}
    /\ raised = "none"
    /\ pc = "load"

Init == InitWith(Listings(MainNames, FALSE, 1, MaxFiles))
InitNames == InitWith(Listings(AllNames, TRUE, 1, MaxNamed))
InitRank == InitWith(RankListings)

Next ==
    \/ LoadFile
    \/ ReturnTables
    \/ Sidebar
    \/ Filter
    \/ Tab1
    \/ Tab2
    \/ Tab3
    \/ Tab4
    \/ Rerun

Spec == Init /\ [][Next]_vars
SpecNames == InitNames /\ [][Next]_vars
SpecRank == InitRank /\ [][Next]_vars

----------------------------------------------------------------------------
(* Properties *)

Tables == { "blog", "shop", "trend", "news" }
Sections == { "tab1", "tab2", "tab3", "tab4" }

ListOf(t) ==
    IF t = "blog" THEN blog_list
    ELSE IF t = "shop" THEN shop_list
    ELSE IF t = "trend" THEN trend_list
    ELSE news_list

TableDF(t) ==
    IF t = "blog" THEN blog_df
    ELSE IF t = "shop" THEN shop_df
    ELSE IF t = "trend" THEN trend_df
    ELSE news_df

FilteredDF(t) ==
    IF t = "blog" THEN f_blog
    ELSE IF t = "shop" THEN f_shop
    ELSE IF t = "trend" THEN f_trend
    ELSE f_news

\* the no-data notice of a category's section and the header of a section
NoticeOf(t) ==
    IF t = "blog" THEN "info_blog"
    ELSE IF t = "shop" THEN "info_shop"
    ELSE IF t = "trend" THEN "info_trend"
    ELSE "info_news"

HeaderOf(sec) ==
    IF sec = "tab1" THEN "header1"
    ELSE IF sec = "tab2" THEN "header2"
    ELSE IF sec = "tab3" THEN "header3"
    ELSE "header4"

RowsOf(df) == { df.rows[k] : k \in DOMAIN df.rows }

\* file k's data frame was appended to the list of table t
InList(t, k) == \E j \in DOMAIN ListOf(t) : ListOf(t)[j].src = k

\* the loader has returned
Loaded == pc # "load"

\* the filter stage has completed in the current run
FilterDone ==
    \/ pc \in { "tab1", "tab2", "tab3", "tab4", "done" }
    \/ pc = "crashed" /\ raised \in Sections

\* the blog section and the news section have been left
Tab2Done ==
    \/ pc \in { "tab3", "tab4", "done" }
    \/ pc = "crashed" /\ raised \in { "tab2", "tab3", "tab4" }

Tab4Done == pc = "done" \/ (pc = "crashed" /\ raised = "tab4")

\* the keyword of the naming convention: the category prefix and the
\* trailing _<datestamp> suffix stripped
ConventionKeyword(name) ==
    LET c == Intended(name)
        prefix == IF c = "trend" THEN P_trend
                  ELSE IF c = "blog" THEN P_blog
                  ELSE IF c = "shop" THEN P_shop
                  ELSE P_news
    IN  RSplit1(SubSeq(name, Len(prefix) + 1, Len(name)))

RECURSIVE SumOver(_, _)
SumOver(S, f) ==
    IF S = {} THEN 0
    ELSE LET x == CHOOSE y \in S : TRUE IN f[x] + SumOver(S \ { x }, f)

\* C1: every file is placed in at most one of the four category lists, and
\* a readable shopping_trend_<keyword>_<datestamp>.csv file with a period
\* column is placed in the trend list and not in the shop list.
C1_ClassificationExclusive ==
    Loaded =>
        \A k \in DOMAIN files :
            /\ Cardinality({ t \in Tables : InList(t, k) }) <= 1
            /\ ( /\ Intended(files[k].name) = "trend"
                 /\ files[k].ok
                 /\ "period" \in files[k].cols )
               => (InList("trend", k) /\ ~InList("shop", k))

\* C2: once the filter stage has run, whatever the keyword selection and
\* the date-range input, every row of f_trend, f_blog, f_shop and f_news
\* has a target_keyword of the selected set.
C2_KeywordFilterExact ==
    FilterDone =>
        \A t \in Tables : \A r \in RowsOf(FilteredDF(t)) :
            r.target_keyword \in selected_keywords

\* C3: with a two-date range, a trend or blog row of a selected keyword
\* dated exactly start_date or exactly end_date is in the filtered table,
\* and no row dated before start_date or after end_date is.
C3_DateRangeInclusive ==
    (FilterDone /\ Len(date_range) = 2) =>
        \A t \in { "trend", "blog" } :
            /\ \A r \in RowsOf(TableDF(t)) :
                  ( /\ r.target_keyword \in selected_keywords
                    /\ r.date # NaT
                    /\ r.date \in { date_range[1], date_range[2] } )
                  => r \in RowsOf(FilteredDF(t))
            /\ \A r \in RowsOf(TableDF(t)) :
                  (r.date # NaT /\ (r.date < date_range[1] \/ r.date > date_range[2]))
                  => r \notin RowsOf(FilteredDF(t))

C3_Witness ==
    /\ FilterDone
    /\ Len(date_range) = 2
    /\ date_range[1] < date_range[2]
    /\ \A t \in { "trend", "blog" } :
          /\ \E r \in RowsOf(FilteredDF(t)) : r.date = date_range[1]
          /\ \E r \in RowsOf(FilteredDF(t)) : r.date = date_range[2]
          /\ \E r \in RowsOf(TableDF(t)) :
                /\ r.target_keyword \in selected_keywords
                /\ r.date # NaT
                /\ r.date < date_range[1]
                /\ r \notin RowsOf(FilteredDF(t))

\* C4: when the loader has returned it has consumed every file; every
\* recognised file whose reading or preprocessing failed is named in an
\* error message, and every row of every other recognised file is in the
\* table of its category.
C4_FileErrorsContained ==
    Loaded =>
        /\ i = Len(files)
        /\ \A k \in DOMAIN files :
              Recognised(files[k].name) =>
                  IF LoadRaises(files[k], TableOf(files[k].name))
                  THEN files[k].name \in errors
                  ELSE \A n \in DOMAIN files[k].rows :
                          \E r \in RowsOf(TableDF(TableOf(files[k].name))) :
                              r.rid = << k, n >>

C4_Witness ==
    /\ Loaded
    /\ \E k \in DOMAIN files : \E m \in DOMAIN files :
          /\ k < m
          /\ files[k].name \in errors
          /\ LoadRaises(files[k], TableOf(files[k].name))
          /\ Len(files[m].rows) > 0
          /\ \E r \in RowsOf(TableDF(TableOf(files[m].name))) : r.rid = << m, 1 >>

\* C5: when a category has no loaded file, the filter stage does not raise
\* and a run that reaches the end has shown that category's no-data notice.
C5_MissingCategoryDegrades ==
    \A t \in Tables :
        (Loaded /\ ListOf(t) = << >>) =>
            /\ raised # "filter"
            /\ pc = "done" => NoticeOf(t) \in out

\* C6: an exception raised while rendering one section leaves every other
\* section rendered.
C6_SectionsIndependent ==
    (pc = "crashed" /\ raised \in Sections) =>
        \A sec \in Sections \ { raised } :
            HeaderOf(sec) \in out

\* the documents of a table's text column are all blank: missing values
\* and empty strings
AllBlank(df) == \A r \in RowsOf(df) : r.doc \in { NaNDoc, 1 }

C8_RankingBounded ==
    /\ Len(ranking) <= MaxFeaturesBlog
    /\ Len(ranking_n) <= MaxFeaturesNews
    /\ \A rk \in { ranking, ranking_n } :
          /\ \A j \in DOMAIN rk : \A k \in DOMAIN rk :
                j # k => rk[j].keyword # rk[k].keyword
          /\ \A k \in DOMAIN rk : rk[k].score >= 0

C8_Witness ==
    /\ pc = "done"
    /\ Len(ranking) = MaxFeaturesBlog
    /\ Len(ranking_n) = MaxFeaturesNews
    /\ Cardinality(Vocabulary(TokensOf(f_blog))) > MaxFeaturesBlog
    /\ \E k \in DOMAIN ranking : ranking[k].score > 0

\* C9: the row count of a category table is the sum of the row counts of
\* the files loaded into it, and every row carries the keyword of its own
\* file's name: the category prefix and the _<datestamp> suffix stripped.
C9_MergeKeepsRowsAndKeywords ==
    Loaded =>
        \A t \in Tables :
            /\ Len(TableDF(t).rows) =
                  SumOver({ k \in DOMAIN files : InList(t, k) },
                          [ k \in DOMAIN files |-> Len(files[k].rows) ])
            /\ \A r \in RowsOf(TableDF(t)) :
                  r.target_keyword = ConventionKeyword(files[r.rid[1]].name)

\* C10: the selectable keywords are the target_keyword values of the trend
\* table, and with a non-empty trend table and a two-date range no blog,
\* shop or news row whose keyword has no trend file is in a filtered table.
C10_OnlyTrendKeywords ==
    /\ pc \notin { "load", "sidebar" } =>
          /\ all_keywords = Keywords(trend_df)
          /\ selected_keywords \subseteq all_keywords
    /\ (FilterDone /\ ~IsEmpty(trend_df) /\ Len(date_range) = 2) =>
          \A t \in { "blog", "shop", "news" } : \A r \in RowsOf(FilteredDF(t)) :
              \E k \in DOMAIN files :
                  /\ TableOf(files[k].name) = "trend"
                  /\ KeywordOf(files[k].name) = r.target_keyword

C10_Witness ==
    /\ FilterDone
    /\ ~IsEmpty(trend_df)
    /\ Len(date_range) = 2
    /\ \E r \in RowsOf(blog_df) :
          /\ \A k \in DOMAIN files :
                TableOf(files[k].name) = "trend" => KeywordOf(files[k].name) # r.target_keyword
          /\ r \notin RowsOf(f_blog)
    /\ RowsOf(f_shop) # {}

====
